---- MODULE Spec2Model ----
(***************************************************************************)
(* Model of OPDS2.py: the OPDSFeed navigation cache (_warm_cache,          *)
(* _get_cached), the feeds assembled from it (_bookshelf_category,         *)
(* _locc_navigation) and the pure helpers (_paginate, _pagination_links,   *)
(* _facets).                                                               *)
(***************************************************************************)
EXTENDS Integers, Sequences, FiniteSets, TLC

(***************************************************************************)
(* Bounds of the model.                                                    *)
(***************************************************************************)
\* engine calls that fail in one behaviour
MaxFaults == 1
\* cherrypy.log calls that raise in one behaviour
MaxLogFaults == 1

(***************************************************************************)
(* Program constants.                                                      *)
(***************************************************************************)
SAMPLE_LIMIT == 15

\* the threads that call _initial_warm, each once; a rebuild is named after
\* its thread
Warmers == {"w1", "w2"}

(***************************************************************************)
(* The collaborators of mv_search, as far as OPDS2.py uses them.           *)
(***************************************************************************)
\* CuratedBookshelves: categories in declared order, each with its shelf ids
CuratedBookshelves ==
    << [name |-> "ADVENTURE", shelves |-> <<1, 2>>],
       [name |-> "SCIENCE", shelves |-> <<3>>] >>

RECURSIVE FlattenShelves(_)
FlattenShelves(cats) ==
    IF cats = <<>> THEN <<>>
    ELSE Head(cats).shelves \o FlattenShelves(Tail(cats))

\* the order in which the two nested loops of _warm_cache visit the shelves
AllShelves == FlattenShelves(CuratedBookshelves)

\* fts.execute(query.bookshelf_id(id).order_by(RANDOM)[1, SAMPLE_LIMIT])
ShelfBooks(shelf_id) ==
    CASE shelf_id = 1 -> <<"b1", "b2">>
      [] shelf_id = 2 -> <<>>
      [] OTHER -> <<"b3">>

EngineSample(shelf_id) ==
    LET books == ShelfBooks(shelf_id)
        n == IF Len(books) < SAMPLE_LIMIT THEN Len(books) ELSE SAMPLE_LIMIT
    IN [total |-> Len(books), results |-> SubSeq(books, 1, n)]

\* fts.get_locc_children(code); "" is the top level
LoccChildren(code) ==
    CASE code = "" -> << [code |-> "B", has_children |-> TRUE],
                         [code |-> "A", has_children |-> TRUE] >>
      [] code = "A" -> << [code |-> "AC", has_children |-> FALSE],
                          [code |-> "AS", has_children |-> TRUE] >>
      [] code = "B" -> << [code |-> "BF", has_children |-> FALSE] >>
      [] code = "AS" -> << [code |-> "ASX", has_children |-> FALSE] >>
      [] OTHER -> <<>>

\* fts.count(query.locc(code))
LoccCount(code) ==
    CASE code = "AC" -> 4
      [] code = "BF" -> 0
      [] code = "ASX" -> 2
      [] OTHER -> 0

\* fts.list_subjects(), in the order the engine returns it
ListSubjects ==
    << [id |-> 1, book_count |-> 5], [id |-> 2, book_count |-> 9] >>

(***************************************************************************)
(* Cache keys and maps.  A map is a function from the keys it holds; a     *)
(* snapshot is a map together with the identity of the dict object, which  *)
(* is the rebuild that created it ("init": the dict of __init__).          *)
(***************************************************************************)
SampleKey(shelf_id) == <<"bookshelf_sample", shelf_id>>
ChildrenKey(code) == <<"locc_children", code>>
CountKey(code) == <<"locc_count", code>>
SubjectsKey == <<"subjects_list", 0>>

EmptyMap == [k \in {} |-> 0]

\* d[key] = val on a dict
Store(map, key, val) ==
    [k \in DOMAIN map \cup {key} |-> IF k = key THEN val ELSE map[k]]

RECURSIVE StoreAll(_, _)
\* d[k] = v for a sequence of <<k, v>> pairs, in order
StoreAll(map, pairs) ==
    IF pairs = <<>> THEN map
    ELSE StoreAll(Store(map, Head(pairs)[1], Head(pairs)[2]), Tail(pairs))

RECURSIVE InsertDesc(_, _)
InsertDesc(s, sorted) ==
    IF sorted = <<>> THEN <<s>>
    ELSE IF Head(sorted).book_count >= s.book_count
         THEN <<Head(sorted)>> \o InsertDesc(s, Tail(sorted))
         ELSE <<s>> \o sorted

RECURSIVE SortedSubjects(_)
\* sorted(subjects, key=lambda x: x["book_count"], reverse=True): stable
SortedSubjects(subjects) ==
    IF subjects = <<>> THEN <<>>
    ELSE InsertDesc(Head(subjects), SortedSubjects(Tail(subjects)))

(***************************************************************************)
(* Python values of the helpers.  A raw request parameter is a str (a      *)
(* sequence of characters), an int (the default of the handler) or None.   *)
(***************************************************************************)
\* longest raw page / limit string
MaxRawLen == 3
\* largest page and total_pages handed to _pagination_links
MaxPage == 10

Alphabet == {"-", "0", "1", "x"}

RawStr(s) == [t |-> "str", s |-> s, n |-> 0]
RawInt(n) == [t |-> "int", s |-> <<>>, n |-> n]
RawNone == [t |-> "None", s |-> <<>>, n |-> 0]

IsDigit(c) == c \in {"0", "1", "2", "3", "4", "5", "6", "7", "8", "9"}

DigitVal(c) ==
    CASE c = "0" -> 0 [] c = "1" -> 1 [] c = "2" -> 2 [] c = "3" -> 3
      [] c = "4" -> 4 [] c = "5" -> 5 [] c = "6" -> 6 [] c = "7" -> 7
      [] c = "8" -> 8 [] OTHER -> 9

RECURSIVE DigitsValue(_, _)
\* the value of a string of decimal digits, most significant first
DigitsValue(digits, acc) ==
    IF digits = <<>> THEN acc
    ELSE DigitsValue(Tail(digits), acc * 10 + DigitVal(Head(digits)))

\* int(v): an optional sign and at least one digit, else ValueError; None is
\* a TypeError; an int is itself
PyInt(v) ==
    IF v.t = "None" THEN [ok |-> FALSE, exc |-> "TypeError", val |-> 0]
    ELSE IF v.t = "int" THEN [ok |-> TRUE, exc |-> "", val |-> v.n]
    ELSE LET signed == v.s # <<>> /\ Head(v.s) \in {"-", "+"}
             digits == IF signed THEN Tail(v.s) ELSE v.s
         IN IF digits = <<>> \/ \E i \in DOMAIN digits : ~IsDigit(digits[i])
            THEN [ok |-> FALSE, exc |-> "ValueError", val |-> 0]
            ELSE [ok |-> TRUE, exc |-> "",
                  val |-> IF signed /\ Head(v.s) = "-"
                          THEN 0 - DigitsValue(digits, 0)
                          ELSE DigitsValue(digits, 0)]

PyMax(a, b) == IF a >= b THEN a ELSE b
PyMin(a, b) == IF a <= b THEN a ELSE b

\* the default of _paginate's third parameter
PaginateDefault == 28

\* _paginate with the default for a page size outside 1..100
PaginateDefaultsOutOfRange(page, limit) ==
    LET p == PyInt(page)
        l == PyInt(limit)
    IN IF p.ok /\ l.ok
       THEN <<PyMax(1, p.val),
              IF l.val < 1 \/ l.val > 100 THEN PaginateDefault ELSE l.val>>
       ELSE <<1, PaginateDefault>>

\* _paginate without the min(100, ...)
PaginateNoUpperClamp(page, limit) ==
    LET p == PyInt(page)
        l == PyInt(limit)
    IN IF p.ok /\ l.ok
       THEN <<PyMax(1, p.val), PyMax(1, l.val)>>
       ELSE <<1, PaginateDefault>>

\* _paginate(page, limit): <<page, limit>>
_paginate(page, limit) ==
    LET p == PyInt(page)
        l == PyInt(limit)
    IN IF p.ok /\ l.ok
       THEN <<PyMax(1, p.val), PyMax(1, PyMin(100, l.val))>>
       ELSE <<1, PaginateDefault>>

\* _url(path, params): the parameters with an empty value are left out; the
\* values are the texts urlencode writes (an int enters as ToString of it)
_url(path, params) ==
    LET keep == {k \in DOMAIN params : params[k] # ""}
    IN [path |-> path, query |-> [k \in keep |-> params[k]]]

\* {**base, **more}
Merge(base, more) ==
    [k \in DOMAIN base \cup DOMAIN more |->
        IF k \in DOMAIN more THEN more[k] ELSE base[k]]

\* _make_page_url, _make_facet_url: the closure is its two captured values
_make_page_url(endpoint, base, query) ==
    [endpoint |-> endpoint, base |-> base, query |-> query]

page_url(fn, p) ==
    _url(fn.endpoint, Merge(fn.base, [query |-> fn.query, page |-> ToString(p)]))

_make_facet_url(endpoint, base) == [endpoint |-> endpoint, base |-> base]

facet_url(fn, q, lng, cr, ab, srt, so) ==
    _url(fn.endpoint,
         Merge(fn.base, [query |-> q, page |-> ToString(1), lang |-> lng,
                         copyrighted |-> cr, audiobook |-> ab, sort |-> srt,
                         sort_order |-> so]))

_link(rel, href) == [rel |-> rel, href |-> href]

\* _pagination_links with <= for < in the second test
PaginationLinksOffByOne(url_fn, page, total_pages) ==
    (IF page > 1
     THEN << _link("first", page_url(url_fn, 1)),
             _link("previous", page_url(url_fn, page - 1)) >>
     ELSE <<>>)
    \o
    (IF page <= total_pages
     THEN << _link("next", page_url(url_fn, page + 1)),
             _link("last", page_url(url_fn, total_pages)) >>
     ELSE <<>>)

\* _pagination_links(url_fn, page, total_pages)
_pagination_links(url_fn, page, total_pages) ==
    (IF page > 1
     THEN << _link("first", page_url(url_fn, 1)),
             _link("previous", page_url(url_fn, page - 1)) >>
     ELSE <<>>)
    \o
    (IF page < total_pages
     THEN << _link("next", page_url(url_fn, page + 1)),
             _link("last", page_url(url_fn, total_pages)) >>
     ELSE <<>>)

(***************************************************************************)
(* _facets.  The operands of Python's + carry their type: a dict and a     *)
(* list do not add.                                                        *)
(***************************************************************************)
PyDict(fields) == [py |-> "dict", v |-> fields]
PyList(items) == [py |-> "list", v |-> items]
PyTypeError == [py |-> "TypeError", v |-> <<>>]

\* a + b
PyAdd(a, b) ==
    IF a.py = "list" /\ b.py = "list" THEN PyList(a.v \o b.v) ELSE PyTypeError

\* LANGUAGES (line 20): one entry per member of mv_search's Language
LANGUAGES ==
    << [code |-> "en", label |-> "English"],
       [code |-> "fr", label |-> "French"] >>

\* _facet(href, title, active): "rel" is there only when active
_facet(href, title, active) ==
    PyDict(IF active
           THEN [href |-> href, title |-> title, rel |-> "self"]
           ELSE [href |-> href, title |-> title])

\* an optional list of subjects: None, or a list
NoSubjects == [is_none |-> TRUE, items |-> <<>>]
Subjects(items) == [is_none |-> FALSE, items |-> items]

\* lines 238-271
SortByGroup(url_fn, query, lang, copyrighted, audiobook, sort) ==
    [title |-> "Sort By",
     links |-> PyList(<<
        _facet(facet_url(url_fn, query, lang, copyrighted, audiobook, "downloads", "desc"),
               "Most Popular", sort \in {"downloads", ""}),
        _facet(facet_url(url_fn, query, lang, copyrighted, audiobook, "relevance", ""),
               "Relevance", sort = "relevance"),
        _facet(facet_url(url_fn, query, lang, copyrighted, audiobook, "title", "asc"),
               "Title (A-Z)", sort = "title"),
        _facet(facet_url(url_fn, query, lang, copyrighted, audiobook, "author", "asc"),
               "Author (A-Z)", sort = "author"),
        _facet(facet_url(url_fn, query, lang, copyrighted, audiobook, "random", ""),
               "Random", sort = "random") >>)]

\* lines 273-286
TopSubjectsGroup(subjects) ==
    [title |-> "Top Subjects in Results",
     links |-> PyList([i \in DOMAIN subjects.items |->
                          PyDict([href |-> [path |-> "/opds/subjects",
                                            query |-> [id |-> subjects.items[i].id]],
                                  title |-> <<subjects.items[i].name,
                                              subjects.items[i].count>>])])]

\* lines 290-309
CopyrightGroup(url_fn, query, lang, copyrighted, audiobook, sort, sort_order) ==
    [title |-> "Copyright Status",
     links |-> PyList(<<
        _facet(facet_url(url_fn, query, lang, "", audiobook, sort, sort_order),
               "Any", copyrighted = ""),
        _facet(facet_url(url_fn, query, lang, "false", audiobook, sort, sort_order),
               "Public Domain", copyrighted = "false"),
        _facet(facet_url(url_fn, query, lang, "true", audiobook, sort, sort_order),
               "Copyrighted", copyrighted = "true") >>)]

\* lines 310-329
FormatGroup(url_fn, query, lang, copyrighted, audiobook, sort, sort_order) ==
    [title |-> "Format",
     links |-> PyList(<<
        _facet(facet_url(url_fn, query, lang, copyrighted, "", sort, sort_order),
               "Any", audiobook = ""),
        _facet(facet_url(url_fn, query, lang, copyrighted, "false", sort, sort_order),
               "Text", audiobook = "false"),
        _facet(facet_url(url_fn, query, lang, copyrighted, "true", sort, sort_order),
               "Audiobook", audiobook = "true") >>)]

\* lines 333-352: the one element of the "links" list of the Language group,
\* _facet(...) + [_facet(...) for item in LANGUAGES]
LanguageLinks(url_fn, query, lang, copyrighted, audiobook, sort, sort_order) ==
    PyAdd(_facet(facet_url(url_fn, query, "", copyrighted, audiobook, sort, sort_order),
                 "Any", lang = ""),
          PyList([i \in DOMAIN LANGUAGES |->
                     _facet(facet_url(url_fn, query, LANGUAGES[i].code, copyrighted,
                                      audiobook, sort, sort_order),
                            LANGUAGES[i].label, lang = LANGUAGES[i].code)]))

\* lines 330-354
LanguageGroup(url_fn, query, lang, copyrighted, audiobook, sort, sort_order) ==
    [title |-> "Language",
     links |-> PyList(<< LanguageLinks(url_fn, query, lang, copyrighted, audiobook,
                                       sort, sort_order) >>)]

\* _facets(url_fn, query, lang, copyrighted, audiobook, sort, sort_order,
\* subjects): the list it returns, or the exception it raises
_facets(url_fn, query, lang, copyrighted, audiobook, sort, sort_order, subjects) ==
    LET first == << SortByGroup(url_fn, query, lang, copyrighted, audiobook, sort) >>
                 \o (IF ~subjects.is_none /\ subjects.items # <<>>
                     THEN << TopSubjectsGroup(subjects) >> ELSE <<>>)
        language == LanguageLinks(url_fn, query, lang, copyrighted, audiobook,
                                  sort, sort_order)
        rest == << CopyrightGroup(url_fn, query, lang, copyrighted, audiobook,
                                  sort, sort_order),
                   FormatGroup(url_fn, query, lang, copyrighted, audiobook,
                               sort, sort_order),
                   LanguageGroup(url_fn, query, lang, copyrighted, audiobook,
                                 sort, sort_order) >>
    IN IF language.py = "TypeError"
       THEN [raised |-> "TypeError", facets |-> <<>>]
       ELSE [raised |-> "", facets |-> first \o rest]

VARIABLES
    cache,            \* self._cache: [cycle, entries]
    cache_timestamp,  \* self._cache_timestamp
    stamped_by,       \* the rebuild that wrote cache_timestamp ("init": __init__)
    now,              \* time.time()
    faults,           \* engine calls that failed so far
    log_faults,       \* cherrypy.log calls that raised so far
    warm,             \* per thread: the frame of _warm_cache
    complete,         \* the maps of the rebuilds that finished all three jobs
    req,              \* the frame of the request being served
    args,             \* the arguments of a call of a helper
    ret               \* what that call returned

vars == <<cache, cache_timestamp, stamped_by, now, faults,
          log_faults, warm, complete, req, args, ret>>

cacheVars == <<cache, cache_timestamp, stamped_by, now, faults,
               log_faults, warm, complete>>

EmptySnapshot == [cycle |-> "init", entries |-> EmptyMap]

IdleFrame ==
    [pc |-> "idle", pos |-> 0, new_cache |-> EmptyMap,
     failed |-> {}, cache0 |-> EmptySnapshot, ts0 |-> 0, result |-> "none",
     faulted |-> FALSE, succeeded |-> {}]

NoResponse == [raised |-> "", status |-> 0, message |-> "", feed |-> <<>>]

IdleRequest ==
    [pc |-> "idle", op |-> "", arg |-> "", pos |-> 0, children |-> <<>>,
     counts |-> <<>>, groups |-> <<>>, nav |-> <<>>, taken |-> {},
     sources |-> <<>>, failed |-> {}, response |-> NoResponse]

NoArgs == [fn |-> ""]
NoReturn == [done |-> FALSE, value |-> <<>>]

\* OPDSFeed.__init__ (lines 96-99), no request and no call yet
Fresh ==
    /\ cache = EmptySnapshot
    /\ cache_timestamp = 0
    /\ stamped_by = "init"
    /\ now = 0
    /\ faults = 0
    /\ log_faults = 0
    /\ warm = [w \in Warmers |-> IdleFrame]
    /\ complete = {}
    /\ req = IdleRequest
    /\ ret = NoReturn

Init == Fresh /\ args = NoArgs

(***************************************************************************)
(* _warm_cache, one action per engine call or statement on self.           *)
(***************************************************************************)
SetFrame(w, f) == warm' = [warm EXCEPT ![w] = f]

\* the frame once _warm_cache has returned
Returned(f, result) == [IdleFrame EXCEPT !.pc = "returned", !.result = result]

\* Put with the entries written into the published dict instead
PutInPlace(w, f, pairs) ==
    /\ SetFrame(w, f)
    /\ cache' = [cache EXCEPT !.entries = StoreAll(@, pairs)]

\* new_cache[key] = val (line 125, 140, 145, 156): the local dict of the frame
Put(w, f, pairs) ==
    /\ SetFrame(w, [f EXCEPT !.new_cache = StoreAll(@, pairs),
                             !.succeeded = @ \cup {pairs[i][1] : i \in DOMAIN pairs}])
    /\ UNCHANGED cache

\* the local dict started as a copy of the published one
NewCacheCopiesOld == cache.entries

\* line 112: new_cache = {}
NewCache == EmptyMap

\* an engine call of this rebuild raised and an inner handler caught it
Faulted(f) == [f EXCEPT !.faulted = TRUE]

\* the inner loop of lines 116-117 moves on
NextShelf(f) ==
    IF f.pos = Len(AllShelves)
    THEN [f EXCEPT !.pc = "locc_top", !.pos = 1]
    ELSE [f EXCEPT !.pos = @ + 1]

\* SkipShelf with the handler around the loops instead of inside them
SkipShelfEndsJob(f, shelf_id) ==
    [Faulted(f) EXCEPT !.pc = "locc_top", !.pos = 1, !.failed = @ \cup {shelf_id}]

\* lines 129-130: the failure of one shelf is logged and the loop continues
SkipShelf(f, shelf_id) ==
    [NextShelf(Faulted(f)) EXCEPT !.failed = @ \cup {shelf_id}]

\* the loop of line 135 moves on
NextLocc(f) ==
    IF f.pos >= Len(LoccChildren(""))
    THEN [f EXCEPT !.pc = "subjects", !.pos = 0]
    ELSE [f EXCEPT !.pos = @ + 1]

RECURSIVE LeafCountsOfInteriors(_)
\* LeafCounts with the test of line 142 inverted
LeafCountsOfInteriors(children) ==
    IF children = <<>> THEN <<>>
    ELSE (IF ~Head(children).has_children THEN <<>>
          ELSE << <<CountKey(Head(children).code), LoccCount(Head(children).code)>> >>)
         \o LeafCountsOfInteriors(Tail(children))

RECURSIVE LeafCounts(_)
\* lines 142-147: the entries of the leaf children, in order
LeafCounts(children) ==
    IF children = <<>> THEN <<>>
    ELSE (IF Head(children).has_children THEN <<>>
          ELSE << <<CountKey(Head(children).code), LoccCount(Head(children).code)>> >>)
         \o LeafCounts(Tail(children))

EngineFails == faults < MaxFaults /\ faults' = faults + 1
EngineWorks == UNCHANGED faults
LogRaises == log_faults < MaxLogFaults /\ log_faults' = log_faults + 1
LogWorks == UNCHANGED log_faults

\* lines 168-169: an exception that reached the outer handler is logged
Abort(w) ==
    /\ LogRaises
    /\ SetFrame(w, Returned(warm[w], "error"))
    /\ UNCHANGED cache

\* _initial_warm calls _warm_cache: lines 103-104, 110-112
Start(w) ==
    /\ warm[w].pc = "idle"
    /\ \/ /\ LogWorks
          /\ SetFrame(w, [IdleFrame EXCEPT !.pc = "shelves", !.pos = 1,
                                           !.new_cache = NewCache,
                                           !.cache0 = cache,
                                           !.ts0 = cache_timestamp])
       \/ \* line 110 raises: caught by _initial_warm, lines 105-106
          /\ LogRaises
          /\ SetFrame(w, Returned(warm[w], "initial_warm_failed"))
    /\ UNCHANGED <<cache, cache_timestamp, stamped_by, now, faults, complete,
                      req, args, ret>>

\* lines 118-130: the sample of one shelf
WarmShelf(w) ==
    LET f == warm[w]
        shelf_id == AllShelves[f.pos]
        result == EngineSample(shelf_id)
    IN /\ f.pc = "shelves"
       /\ \/ /\ EngineWorks /\ LogWorks
             /\ Put(w, NextShelf(f),
                    << <<SampleKey(shelf_id),
                         [result |-> result, count |-> result.total]>> >>)
          \/ /\ EngineFails /\ LogWorks
             /\ SetFrame(w, SkipShelf(f, shelf_id))
             /\ UNCHANGED cache
          \/ EngineFails /\ Abort(w)
       /\ UNCHANGED <<cache_timestamp, stamped_by, now, complete,
                      req, args, ret>>

\* lines 133-135, 150-151: the top-level codes
WarmLoccTop(w) ==
    LET f == warm[w]
    IN /\ f.pc = "locc_top"
       /\ \/ /\ EngineWorks /\ LogWorks
             /\ SetFrame(w, NextLocc([f EXCEPT !.pc = "locc", !.pos = 0]))
             /\ UNCHANGED cache
          \/ /\ EngineFails /\ LogWorks
             /\ SetFrame(w, [Faulted(f) EXCEPT !.pc = "subjects", !.pos = 0])
             /\ UNCHANGED cache
          \/ EngineFails /\ Abort(w)
       /\ UNCHANGED <<cache_timestamp, stamped_by, now, complete,
                      req, args, ret>>

\* lines 136-149: the children of one top-level code and the counts of its
\* leaf children; the entries stored before a failing call stay
WarmLoccCode(w) ==
    LET f == warm[w]
        code == LoccChildren("")[f.pos].code
        children == LoccChildren(code)
        counts == LeafCounts(children)
        all == << <<ChildrenKey(code), children>> >> \o counts
    IN /\ f.pc = "locc"
       /\ \/ /\ EngineWorks /\ LogWorks
             /\ Put(w, NextLocc(f), all)
          \/ \E done \in 0 .. Len(counts) :
                /\ EngineFails
                /\ \/ LogWorks /\ Put(w, NextLocc(Faulted(f)), SubSeq(all, 1, done))
                   \/ Abort(w)
       /\ UNCHANGED <<cache_timestamp, stamped_by, now, complete,
                      req, args, ret>>

\* lines 154-160: the subject list; with it the local map is complete
WarmSubjects(w) ==
    LET f == warm[w]
        g == [f EXCEPT !.pc = "publish"]
        full == Store(f.new_cache, SubjectsKey, SortedSubjects(ListSubjects))
    IN /\ f.pc = "subjects"
       /\ \/ /\ EngineWorks /\ LogWorks
             /\ Put(w, g, << <<SubjectsKey, SortedSubjects(ListSubjects)>> >>)
             /\ complete' = complete \cup {[cycle |-> w, entries |-> full]}
          \/ /\ EngineFails /\ LogWorks
             /\ Put(w, Faulted(g), <<>>)
             /\ complete' = complete \cup {[cycle |-> w, entries |-> f.new_cache]}
          \/ EngineFails /\ Abort(w) /\ UNCHANGED complete
       /\ UNCHANGED <<cache_timestamp, stamped_by, now,
                      req, args, ret>>

\* line 162: self._cache = new_cache
Publish(w) ==
    LET f == warm[w]
    IN /\ f.pc = "publish"
       /\ cache' = [cycle |-> w, entries |-> f.new_cache]
       /\ SetFrame(w, [f EXCEPT !.pc = "stamp"])
       /\ UNCHANGED <<cache_timestamp, stamped_by, now, faults,
                      log_faults, complete,
                      req, args, ret>>

\* line 163: self._cache_timestamp = time.time()
Stamp(w) ==
    LET f == warm[w]
    IN /\ f.pc = "stamp"
       /\ now' = now + 1
       /\ cache_timestamp' = now + 1
       /\ stamped_by' = w
       /\ SetFrame(w, [f EXCEPT !.pc = "log"])
       /\ UNCHANGED <<cache, faults, log_faults, complete,
                      req, args, ret>>

\* lines 164-166, and 168-169 when the log call raises
LogComplete(w) ==
    LET f == warm[w]
    IN /\ f.pc = "log"
       /\ \/ LogWorks /\ SetFrame(w, Returned(f, "complete")) /\ UNCHANGED cache
          \/ Abort(w)
       /\ UNCHANGED <<cache_timestamp, stamped_by, now, faults, complete,
                      req, args, ret>>

(***************************************************************************)
(* Serving requests: index, bookshelves, loccs, subjects, search.           *)
(***************************************************************************)
\* _get_cached(key): self._cache.get(key), None when the key is not there
_get_cached(key) ==
    IF key \in DOMAIN cache.entries
    THEN [is_none |-> FALSE, value |-> cache.entries[key]]
    ELSE [is_none |-> TRUE, value |-> <<>>]

\* the letters of a classification code, as positions in the alphabet
CodeLetters(code) ==
    CASE code = "A" -> <<1>>
      [] code = "B" -> <<2>>
      [] code = "AC" -> <<1, 3>>
      [] code = "AS" -> <<1, 19>>
      [] code = "BF" -> <<2, 6>>
      [] code = "ASX" -> <<1, 19, 24>>
      [] OTHER -> <<>>

RECURSIVE LettersLess(_, _)
\* a < b on strs
LettersLess(a, b) ==
    IF b = <<>> THEN FALSE
    ELSE IF a = <<>> THEN TRUE
    ELSE IF Head(a) # Head(b) THEN Head(a) < Head(b)
    ELSE LettersLess(Tail(a), Tail(b))

\* (len(x), x) < (len(y), y): the sort key of line 640
CodeBefore(x, y) ==
    LET a == CodeLetters(x.code)
        b == CodeLetters(y.code)
    IN Len(a) < Len(b) \/ (Len(a) = Len(b) /\ LettersLess(a, b))

RECURSIVE InsertCode(_, _)
InsertCode(c, sorted) ==
    IF sorted = <<>> THEN <<c>>
    ELSE IF CodeBefore(c, Head(sorted)) THEN <<c>> \o sorted
    ELSE <<Head(sorted)>> \o InsertCode(c, Tail(sorted))

RECURSIVE SortCodes(_)
\* children.sort(key=lambda x: (len(code), code)), line 640
SortCodes(children) ==
    IF children = <<>> THEN <<>>
    ELSE InsertCode(children[Len(children)],
                    SortCodes(SubSeq(children, 1, Len(children) - 1)))

Feed(feed) == [raised |-> "", status |-> 200, message |-> "", feed |-> feed]
HTTPError(status, message) ==
    [raised |-> "HTTPError", status |-> status, message |-> message, feed |-> <<>>]
\* an exception no handler of OPDS2.py catches
Unhandled(exc) == [raised |-> exc, status |-> 500, message |-> "", feed |-> <<>>]

CategoryIndex(category) ==
    {i \in DOMAIN CuratedBookshelves : CuratedBookshelves[i].name = category}

\* the category names a client may ask for
CategoryArgs == {"ADVENTURE", "SCIENCE", "NOSUCH"}
\* the codes a client may ask for
ParentArgs == {"", "A", "AC"}

RequestIdle == req.pc \in {"idle", "done"}
Done(r, response) == [r EXCEPT !.pc = "done", !.response = response]

\* a handler that stores what it computed on a miss in the published dict
WritesBack ==
    /\ cache' = [cache EXCEPT !.entries =
                    Store(@, SubjectsKey, SortedSubjects(ListSubjects))]
    /\ UNCHANGED <<cache_timestamp, stamped_by>>

\* no handler assigns to self._cache, self._cache_timestamp or an entry
ReadOnly == UNCHANGED <<cache, cache_timestamp, stamped_by>>

\* what a handler leaves alone besides: the rebuilds and the helper calls
Serving == ReadOnly /\ UNCHANGED <<now, log_faults, warm, complete, args, ret>>

\* bookshelves(category=...): lines 419, 433-434, 542-547
BookshelvesCategory ==
    /\ RequestIdle
    /\ \E category \in CategoryArgs :
          LET r == [IdleRequest EXCEPT !.op = "_bookshelf_category", !.arg = category]
          IN req' = IF CategoryIndex(category) = {}
                    THEN Done(r, HTTPError(404, "Category not found"))
                    ELSE [r EXCEPT !.pc = "category", !.pos = 1]
    /\ EngineWorks
    /\ Serving

\* ShelfGroups without the test on the results
ShelfGroupsAlways(shelf_id, count, result) ==
    << [shelf |-> shelf_id, numberOfItems |-> count,
        publications |-> result.results] >>

\* the group of one shelf, when its sample has results (lines 555-565, 574-584)
ShelfGroups(shelf_id, count, result) ==
    IF result.results # <<>>
    THEN << [shelf |-> shelf_id, numberOfItems |-> count,
             publications |-> result.results] >>
    ELSE <<>>

\* lines 589-604
CategoryFeed(shelves, counts, groups) ==
    [navigation |-> [i \in DOMAIN shelves |-> <<shelves[i], counts[i]>>],
     groups |-> groups]

\* the request after the body of the loop of line 549 for one shelf
AfterShelf(r, shelves, count, groups, taken) ==
    LET counts == Append(r.counts, count)
        q == [r EXCEPT !.counts = counts,
                       !.groups = @ \o groups,
                       !.taken = @ \cup taken,
                       !.pos = @ + 1]
    IN IF r.pos = Len(shelves)
       THEN Done(q, Feed(CategoryFeed(shelves, counts, q.groups)))
       ELSE q

\* lines 549-587: one shelf of _bookshelf_category
CategoryShelf ==
    /\ req.pc = "category"
    /\ LET shelves == CuratedBookshelves[CHOOSE i \in CategoryIndex(req.arg) : TRUE].shelves
           shelf_id == shelves[req.pos]
           cached == _get_cached(SampleKey(shelf_id))
           live == EngineSample(shelf_id)
       IN IF ~cached.is_none
          THEN /\ req' = AfterShelf([req EXCEPT !.sources = Append(@, "cache")],
                                    shelves, cached.value.count,
                                    ShelfGroups(shelf_id, cached.value.count,
                                                cached.value.result),
                                    {cache.cycle})
               /\ EngineWorks
          ELSE \/ /\ EngineWorks
                  /\ req' = AfterShelf([req EXCEPT !.sources = Append(@, "live")],
                                       shelves, live.total,
                                       ShelfGroups(shelf_id, live.total, live), {})
               \/ \* lines 585-587: logged, counts[id] = 0
                  /\ EngineFails
                  /\ req' = AfterShelf([req EXCEPT !.sources = Append(@, "failed"),
                                                   !.failed = @ \cup {"sample"}],
                                       shelves, 0, <<>>, {})
    /\ Serving

\* fts.get_top_subjects_for_query(q, limit=15, max_books=500)
TopSubjects == << [id |-> 7, name |-> "Whales", count |-> 3] >>

\* the facet URL builder of a leaf listing of /opds/loccs, lines 712-722
LoccBase(parent) ==
    [parent |-> parent, limit |-> ToString(PaginateDefault), lang |-> "",
     copyrighted |-> "", audiobook |-> "", sort |-> "", sort_order |-> ""]

\* base of _bookshelf_books and _subject_books, lines 488-496 and 843-851
IdBase(id) ==
    [id |-> id, limit |-> ToString(PaginateDefault), lang |-> "",
     copyrighted |-> "", audiobook |-> "", sort |-> "", sort_order |-> ""]

\* base of search, lines 926-935
SearchBase ==
    [limit |-> ToString(PaginateDefault), field |-> "fuzzy", lang |-> "",
     copyrighted |-> "", audiobook |-> "", sort |-> "", sort_order |-> "",
     locc |-> ""]

\* a leaf listing with the default filters, after fts.execute has answered:
\* the feed is built around self._facets(...) (lines 524, 745, 873, 939)
LeafFeed(endpoint, base, subjects) ==
    LET facets == _facets(_make_facet_url(endpoint, base),
                          "", "", "", "", "", "", subjects)
    IN IF facets.raised # ""
       THEN Unhandled(facets.raised)
       ELSE Feed([publications |-> <<>>, facets |-> facets.facets])

\* _locc_books with the defaults of loccs: lines 712-759
LoccBooksFeed(parent, subjects) == LeafFeed("/opds/loccs", LoccBase(parent), subjects)

\* the feed of the leaf listing r.op for r.arg
ListingFeed(r, subjects) ==
    CASE r.op = "_locc_books" -> LoccBooksFeed(r.arg, subjects)
      [] r.op = "_bookshelf_books" -> LeafFeed("/opds/bookshelves", IdBase(r.arg), subjects)
      [] r.op = "_subject_books" -> LeafFeed("/opds/subjects", IdBase(r.arg), subjects)
      [] OTHER -> LeafFeed("/opds/search", SearchBase, subjects)

\* lines 486, 710, 841, 924
ListingFailure(r) ==
    HTTPError(500, IF r.op = "search" THEN "Search failed" ELSE "Browse failed")

\* _bookshelf_books and _locc_books ask for the top subjects (lines 532,
\* 753); _subject_books does not, search only with a query, locc or lang
AsksTopSubjects(r) == r.op \in {"_bookshelf_books", "_locc_books"}

\* loccs with the exception of line 627 re-raised as the typed failure
ChildrenFailureRaises(r) ==
    Done([r EXCEPT !.failed = @ \cup {"children"}], HTTPError(500, "Browse failed"))

\* lines 627-636: the failure is logged, children = [], and _locc_books runs
ChildrenFailure(r) ==
    [r EXCEPT !.op = "_locc_books", !.pc = "leaf", !.failed = @ \cup {"children"}]

\* loccs(parent=...): lines 622-636
Loccs ==
    /\ RequestIdle
    /\ \E parent \in ParentArgs :
          LET r == [IdleRequest EXCEPT !.op = "loccs", !.arg = parent]
              children == LoccChildren(parent)
          IN \/ /\ children # <<>>
                /\ EngineWorks
                /\ req' = [r EXCEPT !.op = "_locc_navigation", !.pc = "locc_nav",
                                    !.pos = 1, !.children = SortCodes(children)]
             \/ /\ children = <<>>
                /\ EngineWorks
                /\ req' = [r EXCEPT !.op = "_locc_books", !.pc = "leaf"]
             \/ /\ EngineFails
                /\ req' = ChildrenFailure(r)
    /\ Serving

\* the shelf and subject ids a client may ask for, as the text of the query
IdArgs == {ToString(1)}

\* bookshelves(id=...): lines 419-432
BookshelvesBooks ==
    /\ RequestIdle
    /\ \E id \in IdArgs :
          req' = [IdleRequest EXCEPT !.op = "_bookshelf_books", !.arg = id,
                                     !.pc = "leaf"]
    /\ EngineWorks
    /\ Serving

\* subjects(id=...): lines 778-791
SubjectsBooks ==
    /\ RequestIdle
    /\ \E id \in IdArgs :
          req' = [IdleRequest EXCEPT !.op = "_subject_books", !.arg = id,
                                     !.pc = "leaf"]
    /\ EngineWorks
    /\ Serving

\* search(): lines 900-901
Search ==
    /\ RequestIdle
    /\ req' = [IdleRequest EXCEPT !.op = "search", !.pc = "leaf"]
    /\ EngineWorks
    /\ Serving

\* _bookshelf_books, _locc_books, _subject_books and the rest of search: the
\* engine calls of a leaf listing and the feed
LeafListing ==
    /\ req.pc = "leaf"
    /\ \/ /\ EngineWorks
          /\ req' = Done(req, ListingFeed(req, IF AsksTopSubjects(req)
                                               THEN Subjects(TopSubjects)
                                               ELSE NoSubjects))
       \/ \* fts.execute raises inside the try: lines 484-486, 708-710,
          \* 839-841, 922-924
          /\ EngineFails
          /\ req' = Done([req EXCEPT !.failed = @ \cup {"execute"}],
                         ListingFailure(req))
       \/ \* _top_subjects, lines 206-210: logged, None
          /\ AsksTopSubjects(req)
          /\ EngineFails
          /\ req' = Done([req EXCEPT !.failed = @ \cup {"top_subjects"}],
                         ListingFeed(req, NoSubjects))
       \/ \* line 830: fts.get_subject_name before the try
          /\ req.op = "_subject_books"
          /\ EngineFails
          /\ req' = Done([req EXCEPT !.failed = @ \cup {"get_subject_name"}],
                         Unhandled("EngineError"))
    /\ Serving

\* subjects(): lines 793-815
SubjectsList ==
    /\ RequestIdle
    /\ LET r == [IdleRequest EXCEPT !.op = "subjects"]
           cached == _get_cached(SubjectsKey)
           feed(subjects) ==
              Feed([navigation |-> [i \in DOMAIN subjects |->
                                       <<subjects[i].id, subjects[i].book_count>>]])
       IN IF ~cached.is_none
          THEN /\ EngineWorks
               /\ req' = Done([r EXCEPT !.taken = {cache.cycle}], feed(cached.value))
          ELSE \/ /\ EngineWorks
                  /\ req' = Done(r, feed(SortedSubjects(ListSubjects)))
               \/ \* line 798: no handler around fts.list_subjects
                  /\ EngineFails
                  /\ req' = Done([r EXCEPT !.failed = {"list_subjects"}],
                                 Unhandled("EngineError"))
    /\ Serving

\* index(): lines 362-400, a constant feed
Index ==
    /\ RequestIdle
    /\ req' = Done([IdleRequest EXCEPT !.op = "index"],
                   Feed([navigation |-> <<"/opds/search?field=fuzzy",
                                          "/opds/search?field=fts",
                                          "/opds/bookshelves", "/opds/loccs",
                                          "/opds/subjects">>]))
    /\ EngineWorks
    /\ Serving

\* the request after the body of the loop of line 653 for one child
AfterChild(r, entry, taken) ==
    LET q == [r EXCEPT !.nav = Append(@, entry), !.taken = @ \cup taken,
                       !.pos = @ + 1]
    IN IF r.pos = Len(r.children)
       THEN Done(q, Feed([navigation |-> q.nav]))
       ELSE q

\* lines 653-674: one child of _locc_navigation
LoccNavChild ==
    /\ req.pc = "locc_nav"
    /\ LET child == req.children[req.pos]
           code == child.code
           cached == IF child.has_children
                     THEN _get_cached(ChildrenKey(code))
                     ELSE _get_cached(CountKey(code))
           kind == IF child.has_children THEN "subcategories" ELSE "books"
       IN IF ~cached.is_none
          THEN /\ EngineWorks
               /\ req' = AfterChild(req,
                                    <<code,
                                      IF child.has_children THEN Len(cached.value)
                                      ELSE cached.value,
                                      kind>>,
                                    {cache.cycle})
          ELSE \/ /\ EngineWorks
                  /\ req' = AfterChild(req,
                                       <<code,
                                         IF child.has_children
                                         THEN Len(LoccChildren(code))
                                         ELSE LoccCount(code),
                                         kind>>,
                                       {})
               \/ \* lines 664, 671: no handler around the live call
                  /\ EngineFails
                  /\ req' = Done([req EXCEPT !.failed = @ \cup {"nav_count"}],
                                 Unhandled("EngineError"))
    /\ Serving

Next ==
    \/ \E w \in Warmers :
        \/ Start(w)
        \/ WarmShelf(w)
        \/ WarmLoccTop(w)
        \/ WarmLoccCode(w)
        \/ WarmSubjects(w)
        \/ Publish(w)
        \/ Stamp(w)
        \/ LogComplete(w)
    \/ Index
    \/ BookshelvesCategory
    \/ CategoryShelf
    \/ BookshelvesBooks
    \/ Loccs
    \/ LoccNavChild
    \/ SubjectsList
    \/ SubjectsBooks
    \/ Search
    \/ LeafListing

Spec == Init /\ [][Next]_vars

(***************************************************************************)
(* The helpers on their own: the arguments are drawn in the initial state  *)
(* and one action makes the call.                                          *)
(***************************************************************************)
RECURSIVE StringsUpTo(_)
\* the strs over Alphabet of at most n characters
StringsUpTo(n) ==
    IF n = 0 THEN {<<>>}
    ELSE LET shorter == StringsUpTo(n - 1)
         IN shorter \cup {Append(t, c) : t \in {u \in shorter : Len(u) = n - 1},
                                           c \in Alphabet}

\* what a handler hands to _paginate: the text of the query string, its own
\* default (page: int = 1, limit: int = 28), or None
RawValues ==
    {RawStr(t) : t \in StringsUpTo(MaxRawLen)}
    \cup {RawInt(1), RawInt(PaginateDefault), RawNone}

InitPaginate ==
    /\ Fresh
    /\ args \in {[fn |-> "_paginate", page |-> p, limit |-> l] :
                    p \in RawValues, l \in RawValues}

CallPaginate ==
    /\ args.fn = "_paginate"
    /\ ~ret.done
    /\ ret' = [done |-> TRUE, value |-> _paginate(args.page, args.limit)]
    /\ UNCHANGED <<cacheVars, req, args>>

SpecPaginate == InitPaginate /\ [][CallPaginate]_vars

\* the page URL builder of _subject_books with default filters, lines 843-852
LinksUrlFn ==
    _make_page_url("/opds/subjects",
                   [id |-> ToString(1), limit |-> ToString(PaginateDefault),
                    lang |-> "", copyrighted |-> "", audiobook |-> "",
                    sort |-> "", sort_order |-> ""],
                   "")

InitLinks ==
    /\ Fresh
    /\ args \in {[fn |-> "_pagination_links", page |-> p, total_pages |-> t] :
                    p \in 0 .. MaxPage, t \in 0 .. MaxPage}

CallLinks ==
    /\ args.fn = "_pagination_links"
    /\ ~ret.done
    /\ ret' = [done |-> TRUE,
               value |-> _pagination_links(LinksUrlFn, args.page, args.total_pages)]
    /\ UNCHANGED <<cacheVars, req, args>>

SpecLinks == InitLinks /\ [][CallLinks]_vars

\* the facet URL builder of _subject_books, lines 843-853
FacetsUrlFn(a) ==
    _make_facet_url("/opds/subjects",
                    [id |-> ToString(1), limit |-> ToString(PaginateDefault),
                     lang |-> a.lang, copyrighted |-> a.copyrighted,
                     audiobook |-> a.audiobook, sort |-> a.sort,
                     sort_order |-> a.sort_order])

SubjectArgs ==
    {NoSubjects, Subjects(<<>>),
     Subjects(<< [id |-> 7, name |-> "Whales", count |-> 3] >>)}

InitFacets ==
    /\ Fresh
    /\ args \in {[fn |-> "_facets", query |-> q, lang |-> lng, copyrighted |-> cr,
                  audiobook |-> ab, sort |-> srt, sort_order |-> so,
                  subjects |-> subj] :
                    q \in {"", "whale"}, lng \in {"", "en", "fr", "xx"},
                    cr \in {"", "false", "true", "maybe"},
                    ab \in {"", "false", "true"},
                    srt \in {"", "downloads", "title", "bogus"},
                    so \in {"", "asc", "desc"},
                    subj \in SubjectArgs}

CallFacets ==
    /\ args.fn = "_facets"
    /\ ~ret.done
    /\ ret' = [done |-> TRUE,
               value |-> _facets(FacetsUrlFn(args), args.query, args.lang,
                                 args.copyrighted, args.audiobook, args.sort,
                                 args.sort_order, args.subjects)]
    /\ UNCHANGED <<cacheVars, req, args>>

SpecFacets == InitFacets /\ [][CallFacets]_vars

(***************************************************************************)
(* The raw parameters of a route handler, up to the query it composes.     *)
(***************************************************************************)
\* the values of OrderBy, line 21
VALID_SORTS == {"downloads", "title", "author"}

\* _sort_direction, lines 89-91: None for anything but asc and desc
_sort_direction(order) == IF order \in {"asc", "desc"} THEN order ELSE "None"

\* fts.query(): a builder with no filter and no order yet
NewQuery ==
    [lang |-> "", rights |-> "", format |-> "", order_by |-> "",
     direction |-> "None"]

\* _filter, lines 182-194
_filter(q, lang, copyrighted, audiobook) ==
    [q EXCEPT !.lang = IF lang # "" THEN lang ELSE @,
              !.rights = IF copyrighted = "true" THEN "copyrighted"
                         ELSE IF copyrighted = "false" THEN "public_domain"
                         ELSE @,
              !.format = IF audiobook = "true" THEN "audiobook"
                         ELSE IF audiobook = "false" THEN "text_only"
                         ELSE @]

\* _sort, lines 196-202
_sort(q, sort, sort_order) ==
    IF sort \in VALID_SORTS
    THEN [q EXCEPT !.order_by = sort, !.direction = _sort_direction(sort_order)]
    ELSE [q EXCEPT !.order_by = "downloads"]

\* bookshelves and subjects take an id (lines 407, 767); loccs and search do not
TakesId(route) == route \in {"bookshelves", "subjects"}

\* a handler from its raw parameters to the page and the query of its
\* listing: lines 419-432, 622-623 and 634-636, 778-791, 900-910; int(id) of
\* lines 423 and 782 stands outside every try
Route(a) ==
    LET pl == _paginate(a.page, a.limit)
        id == PyInt(a.id)
        q == _sort(_filter(NewQuery, a.lang, a.copyrighted, a.audiobook),
                   a.sort, a.sort_order)
    IN IF TakesId(a.route) /\ a.id # RawNone /\ ~id.ok
       THEN [raised |-> id.exc, page |-> pl[1], limit |-> pl[2], id |-> 0,
             q |-> NewQuery]
       ELSE [raised |-> "", page |-> pl[1], limit |-> pl[2],
             id |-> IF TakesId(a.route) /\ a.id # RawNone THEN id.val ELSE 0,
             q |-> q]

\* the raw page, limit and id of a query string: absent, numeric, not numeric
RoutePages == {RawInt(1), RawStr(<<"1", "1">>), RawStr(<<"x">>)}
RouteIds == {RawNone, RawStr(<<"1">>), RawStr(<<"x">>)}

InitRoutes ==
    /\ Fresh
    /\ args \in {a \in [fn : {"route"},
                        route : {"bookshelves", "loccs", "subjects", "search"},
                        id : RouteIds, page : RoutePages,
                        limit : {RawInt(PaginateDefault), RawStr(<<"x">>)},
                        sort : {"", "title", "bogus"},
                        sort_order : {"", "asc", "up"},
                        copyrighted : {"", "true", "maybe"},
                        audiobook : {"", "false"},
                        lang : {"", "zz"}] :
                     TakesId(a.route) \/ a.id = RawNone}

CallRoute ==
    /\ args.fn = "route"
    /\ ~ret.done
    /\ ret' = [done |-> TRUE, value |-> Route(args)]
    /\ UNCHANGED <<cacheVars, req, args>>

SpecRoutes == InitRoutes /\ [][CallRoute]_vars

(***************************************************************************)
(* The claims.                                                             *)
(***************************************************************************)
Running(w) == warm[w].pc \notin {"idle", "returned"}

\* C1: whatever the rebuilds and the requests do, the map self._cache refers
\* to is the empty map of __init__ or the map of a rebuild that had finished
\* its three jobs; never a map a rebuild is still filling.
C1_SnapshotIsComplete ==
    cache = EmptySnapshot \/ cache \in complete

\* a request has looked up its first shelf in a published snapshot while a
\* rebuild holds a partly filled local map
C1_Witness ==
    /\ req.pc = "category" /\ req.taken # {}
    /\ cache.cycle # "init"
    /\ \E w \in Warmers :
          /\ warm[w].pc \in {"shelves", "locc", "subjects"}
          /\ DOMAIN warm[w].new_cache # {}

\* C2: the entries one finished feed took from the cache all come from one
\* rebuild.
C2_OneCyclePerFeed ==
    (req.pc = "done" /\ req.response.raised = "") => Cardinality(req.taken) <= 1

SampleShelves(entries) ==
    {AllShelves[i] : i \in {j \in DOMAIN AllShelves :
                               SampleKey(AllShelves[j]) \in DOMAIN entries}}

\* C3: the snapshot a rebuild has published holds the sample of exactly the
\* shelves whose fetch did not fail in that rebuild.
C3_OtherShelvesPresent ==
    \A w \in Warmers :
        (warm[w].pc \in {"stamp", "log"} /\ cache.cycle = w)
        => SampleShelves(cache.entries)
           = {AllShelves[i] : i \in DOMAIN AllShelves} \ warm[w].failed

\* a rebuild in which the fetch of one shelf failed has published
C3_Witness ==
    \E w \in Warmers :
        /\ warm[w].pc = "stamp" /\ cache.cycle = w
        /\ Cardinality(warm[w].failed) = 1
        /\ Cardinality(SampleShelves(cache.entries)) = Len(AllShelves) - 1

\* C4: a rebuild that ran alone and ends in the outer handler (line 169)
\* leaves self._cache and self._cache_timestamp as they were when it started.
C4_AbortKeepsSnapshot ==
    [][\A w \in Warmers :
          (/\ Running(w)
           /\ warm'[w].result = "error"
           /\ \A v \in Warmers \ {w} : warm[v].pc = "idle")
          => (cache' = warm[w].cache0 /\ cache_timestamp' = warm[w].ts0)]_vars

\* C5: at most one execution of _warm_cache is in progress.
C5_OneRebuildAtATime ==
    Cardinality({w \in Warmers : Running(w)}) <= 1

\* C6: _paginate returns a page >= 1 and a page size in 1..100.
C6_PaginateInRange ==
    (args.fn = "_paginate" /\ ret.done)
    => (ret.value[1] >= 1 /\ ret.value[2] >= 1 /\ ret.value[2] <= 100)

\* a negative page and a page size above 100 were clamped
C6_Witness ==
    /\ args.fn = "_paginate" /\ ret.done
    /\ args.page = RawStr(<<"-", "1">>)
    /\ args.limit = RawStr(<<"1", "1", "1">>)
    /\ ret.value = <<1, 100>>

Rels(links) == {links[i].rel : i \in DOMAIN links}
Target(links, rel) ==
    {links[i].href.query["page"] : i \in {j \in DOMAIN links : links[j].rel = rel}}

\* C7: first and previous are there iff page > 1, next and last iff
\* page < total_pages, each once, to pages 1, page - 1, page + 1, total_pages.
C7_PaginationLinks ==
    (args.fn = "_pagination_links" /\ ret.done)
    => LET links == ret.value
           page == args.page
           total == args.total_pages
       IN /\ Rels(links) = (IF page > 1 THEN {"first", "previous"} ELSE {})
                           \cup (IF page < total THEN {"next", "last"} ELSE {})
          /\ Len(links) = Cardinality(Rels(links))
          /\ page > 1 => /\ Target(links, "first") = {ToString(1)}
                         /\ Target(links, "previous") = {ToString(page - 1)}
          /\ page < total => /\ Target(links, "next") = {ToString(page + 1)}
                             /\ Target(links, "last") = {ToString(total)}
          /\ (page = 1 /\ total = 0) => links = <<>>

\* a middle page has its four links
C7_Witness ==
    /\ args.fn = "_pagination_links" /\ ret.done
    /\ args.page = 3 /\ args.total_pages = 5
    /\ Len(ret.value) = 4

Groups(value, title) ==
    {value.facets[i] : i \in {j \in DOMAIN value.facets :
                                 value.facets[j].title = title}}
ActiveTitles(group) ==
    {group.links.v[i].v.title :
        i \in {j \in DOMAIN group.links.v : "rel" \in DOMAIN group.links.v[j].v}}

RightsOption(copyrighted) ==
    CASE copyrighted = "false" -> {"Public Domain"}
      [] copyrighted = "true" -> {"Copyrighted"}
      [] copyrighted = "" -> {"Any"}
      [] OTHER -> {}

\* C8: for copyrighted = "false", "true" or unset, _facets returns a list
\* whose Copyright Status group has exactly the matching option active.
C8_RightsOptionActive ==
    (args.fn = "_facets" /\ ret.done /\ args.copyrighted \in {"false", "true", ""})
    => /\ ret.value.raised = ""
       /\ \E g \in Groups(ret.value, "Copyright Status") :
             ActiveTitles(g) = RightsOption(args.copyrighted)

Param(url, k) == IF k \in DOMAIN url.query THEN url.query[k] ELSE ""

\* the parameters an option of a group may change
Dimension(title) ==
    CASE title = "Sort By" -> {"sort", "sort_order"}
      [] title = "Copyright Status" -> {"copyrighted"}
      [] title = "Format" -> {"audiobook"}
      [] OTHER -> {"lang"}

\* C9: _facets returns a list in which every option of the Sort By,
\* Copyright Status, Format and Language groups links to page 1 and to the
\* request's own values in every dimension but the group's.
C9_OneDimensionVaried ==
    (args.fn = "_facets" /\ ret.done)
    => /\ ret.value.raised = ""
       /\ \A title \in {"Sort By", "Copyright Status", "Format", "Language"} :
             /\ Groups(ret.value, title) # {}
             /\ \A g \in Groups(ret.value, title) :
                   \A i \in DOMAIN g.links.v :
                       LET href == g.links.v[i].v.href
                       IN /\ Param(href, "page") = ToString(1)
                          /\ Param(href, "query") = args.query
                          /\ Param(href, "limit") = ToString(PaginateDefault)
                          /\ Param(href, "id") = ToString(1)
                          /\ \A k \in {"lang", "copyrighted", "audiobook", "sort",
                                       "sort_order"} \ Dimension(title) :
                                Param(href, k) = args[k]

\* C10: _facets returns, and its groups are Sort By, Top Subjects in Results
\* iff a non-empty subject list was given, Copyright Status, Format,
\* Language, the last with "Any" and one option per language.
C10_FacetsReturnsGroups ==
    (args.fn = "_facets" /\ ret.done)
    => /\ ret.value.raised = ""
       /\ [i \in DOMAIN ret.value.facets |-> ret.value.facets[i].title]
          = <<"Sort By">>
            \o (IF ~args.subjects.is_none /\ args.subjects.items # <<>>
                THEN <<"Top Subjects in Results">> ELSE <<>>)
            \o <<"Copyright Status", "Format", "Language">>
       /\ \A g \in Groups(ret.value, "Language") :
             Len(g.links.v) = 1 + Len(LANGUAGES)


\* C11: a request in which a live engine call of a leaf listing, or a live
\* count of _locc_navigation, has failed ends with the typed 500 failure
\* ("Browse failed" or "Search failed"): the failure neither escapes as an
\* untyped exception nor is swallowed.
LiveCalls == {"execute", "top_subjects", "get_subject_name", "nav_count"}

C11_LiveFailureIsTyped ==
    (req.pc = "done" /\ req.failed \cap LiveCalls # {}) =>
        /\ req.response.raised = "HTTPError"
        /\ req.response.status = 500
        /\ req.response.message \in {"Browse failed", "Search failed"}

\* C12: for a known category _bookshelf_category returns a feed with one
\* navigation entry per shelf of the category in declared order, whichever
\* live sample fetches fail; a shelf whose live fetch failed has count 0 and
\* no group; a shelf has a group exactly when its cached or freshly fetched
\* sample has at least one result.
CategoryShelves(category) ==
    CuratedBookshelves[CHOOSE i \in CategoryIndex(category) : TRUE].shelves

C12_CategoryFeedPerShelf ==
    (req.pc = "done" /\ req.op = "_bookshelf_category"
        /\ CategoryIndex(req.arg) # {}) =>
        LET shelves == CategoryShelves(req.arg)
            feed == req.response.feed
            grouped == {i \in DOMAIN shelves :
                           /\ req.sources[i] # "failed"
                           /\ EngineSample(shelves[i]).results # <<>>}
        IN /\ req.response.raised = ""
           /\ DOMAIN feed.navigation = DOMAIN shelves
           /\ \A i \in DOMAIN shelves :
                 /\ feed.navigation[i][1] = shelves[i]
                 /\ req.sources[i] = "failed" => feed.navigation[i][2] = 0
                 /\ req.sources[i] # "failed" =>
                       feed.navigation[i][2] = EngineSample(shelves[i]).total
           /\ Len(feed.groups) = Cardinality(grouped)
           /\ {feed.groups[k].shelf : k \in DOMAIN feed.groups}
                 = {shelves[i] : i \in grouped}

\* a category of two shelves answered although the live fetch of the first
\* shelf, which has books, failed
C12_Witness ==
    /\ req.pc = "done"
    /\ req.op = "_bookshelf_category"
    /\ req.arg = "ADVENTURE"
    /\ req.sources[1] = "failed"
    /\ req.response.raised = ""
    /\ Len(req.response.feed.navigation) = 2
    /\ req.response.feed.groups = <<>>

\* C13: bookshelves, loccs, subjects and search never end in an error caused
\* by an invalid raw value of page, limit, id, sort, sort_order, copyrighted,
\* audiobook or lang, a non-numeric id included.
C13_RoutesAcceptAnyInput ==
    (args.fn = "route" /\ ret.done) => ret.value.raised = ""

\* C14 as stated: after a rebuild in which no engine call failed, for every
\* top-level code T and every child C of T, the snapshot holds
\* locc_children_<C> with the children of C when C is an interior node and
\* locc_count_<C> with the count of C when C is a leaf.
TopCodes == {LoccChildren("")[i].code : i \in DOMAIN LoccChildren("")}
ChildrenOf(code) == {LoccChildren(code)[i] : i \in DOMAIN LoccChildren(code)}
CleanlyPublished(w) ==
    /\ warm[w].pc \in {"stamp", "log"}
    /\ ~warm[w].faulted
    /\ cache.cycle = w
Holds(key, value) == key \in DOMAIN cache.entries /\ cache.entries[key] = value

C14_InteriorChildrenCached ==
    \A w \in Warmers : CleanlyPublished(w) =>
        \A T \in TopCodes : \A C \in ChildrenOf(T) :
            IF C.has_children
            THEN Holds(ChildrenKey(C.code), LoccChildren(C.code))
            ELSE Holds(CountKey(C.code), LoccCount(C.code))

\* C14, amended: after a rebuild in which no engine call failed, the
\* snapshot holds locc_children_<T> with the children of T for every
\* top-level code T, and locc_count_<C> for every leaf child C of T; for an
\* interior child C of T it holds no count, and no locc_children_<C> unless C
\* is a top-level code itself.
C14_TopLevelChildrenCached ==
    \A w \in Warmers : CleanlyPublished(w) =>
        \A T \in TopCodes :
            /\ Holds(ChildrenKey(T), LoccChildren(T))
            /\ \A C \in ChildrenOf(T) :
                  IF C.has_children
                  THEN /\ CountKey(C.code) \notin DOMAIN cache.entries
                       /\ C.code \notin TopCodes =>
                             ChildrenKey(C.code) \notin DOMAIN cache.entries
                  ELSE Holds(CountKey(C.code), LoccCount(C.code))

\* a rebuild without a failure has published: the children of A are there,
\* the children of its interior child AS are not
C14_Witness ==
    \E w \in Warmers :
        /\ CleanlyPublished(w)
        /\ Holds(ChildrenKey("A"), LoccChildren("A"))
        /\ Holds(CountKey("AC"), LoccCount("AC"))
        /\ ChildrenKey("AS") \notin DOMAIN cache.entries

\* C15 as stated: _paginate turns a page that is not numeric or below 1 into
\* 1 and a page size that is not numeric or outside 1..100 into the default
\* 28, and keeps a value that is numeric and in range.
C15_OutOfRangeDefaults ==
    (args.fn = "_paginate" /\ ret.done) =>
        LET p == PyInt(args.page)
            l == PyInt(args.limit)
        IN /\ ret.value[1] = IF p.ok /\ p.val >= 1 THEN p.val ELSE 1
           /\ ret.value[2] = IF l.ok /\ l.val >= 1 /\ l.val <= 100
                             THEN l.val ELSE PaginateDefault

\* C15, amended: when page and page size are both numeric, a page below 1
\* becomes 1, a page size below 1 becomes 1 and one above 100 becomes 100,
\* and a value in range is kept; when either of the two is not numeric the
\* result is page 1 and the default size 28, whatever the other one is.
C15_ClampsOrDefaultsBoth ==
    (args.fn = "_paginate" /\ ret.done) =>
        LET p == PyInt(args.page)
            l == PyInt(args.limit)
        IN IF p.ok /\ l.ok
           THEN /\ ret.value[1] = IF p.val < 1 THEN 1 ELSE p.val
                /\ ret.value[2] = IF l.val < 1 THEN 1
                                  ELSE IF l.val > 100 THEN 100 ELSE l.val
           ELSE ret.value = <<1, PaginateDefault>>

\* a numeric page with the page size 0: the size becomes 1
C15_Witness ==
    /\ args.fn = "_paginate"
    /\ ret.done
    /\ args.page = RawStr(<<"1", "0">>)
    /\ args.limit = RawStr(<<"0">>)
    /\ ret.value = <<10, 1>>

\* C16: a step of a request handler (index, bookshelves, loccs, subjects,
\* search) leaves the published snapshot and its timestamp as they were:
\* nothing is written back on a miss and no cached value is changed.
C16_RequestsAreReadOnly ==
    [][req' # req => (cache' = cache /\ cache_timestamp' = cache_timestamp)]_vars

\* the subject index was computed live on a miss and the snapshot still has
\* no subject list
C16_Witness ==
    /\ req.pc = "done"
    /\ req.op = "subjects"
    /\ req.taken = {}
    /\ req.response.raised = ""
    /\ SubjectsKey \notin DOMAIN cache.entries

\* C17: once a rebuild has run past its last job, the snapshot it published
\* is its fresh map: it holds exactly the entries whose computation
\* succeeded in this rebuild and none carried over from the snapshot before.
C17_PublishesFreshMap ==
    \A w \in Warmers :
        (warm[w].pc \in {"stamp", "log"} /\ cache.cycle = w) =>
            /\ cache.entries = warm[w].new_cache
            /\ DOMAIN cache.entries = warm[w].succeeded

\* the second rebuild has published a snapshot that lacks an entry the
\* snapshot of the first rebuild had
C17_Witness ==
    \E w \in Warmers :
        /\ warm[w].pc \in {"stamp", "log"}
        /\ cache.cycle = w
        /\ warm[w].cache0.cycle \in Warmers \ {w}
        /\ DOMAIN warm[w].cache0.entries \ DOMAIN cache.entries # {}

\* C18: the snapshot and the rebuild timestamp are replaced together: in no
\* state is the snapshot of one rebuild paired with the timestamp of
\* another.
C18_SnapshotAndStampTogether == cache.cycle = stamped_by

\* C19: when the children fetch of loccs has failed the request goes on as
\* if the node had no children: it is answered by _locc_books for the same
\* parent, never by the navigation path, and the failure itself is not the
\* response.
C19_ChildrenFailureFallsToBooks ==
    ("children" \in req.failed) =>
        /\ req.op = "_locc_books"
        /\ req.pc \in {"leaf", "done"}
        /\ req.nav = <<>>
        /\ req.pc = "done" =>
              req.response \in {ListingFeed(req, Subjects(TopSubjects)),
                                ListingFeed(req, NoSubjects),
                                ListingFailure(req)}

\* a request for the interior node A whose children fetch failed, answered
\* by the leaf listing of A
C19_Witness ==
    /\ "children" \in req.failed
    /\ req.pc = "done"
    /\ req.op = "_locc_books"
    /\ req.arg = "A"
====
